---------------------------- MODULE Spec2Model ----------------------------
(***************************************************************************)
(* Model of tools/mega_facts.py: MegaFactsBackend, the synthetic fact      *)
(* corpus (from_synthetic) and its query interface (query); of the memory  *)
(* side, adapters/letta_adapter.py (search, write) and safe_add of         *)
(* runners/run_mem0.py; and of the two runners, runners/run_letta.py and   *)
(* runners/run_mem0.py, which put the two together.                        *)
(*                                                                         *)
(* Strings are sequences of atoms: an atom is a blank or an indivisible    *)
(* piece of text (a word, or a name prefix with its number).  A backend    *)
(* instance is the triple facts / gold / rng; two instances are kept so    *)
(* that runs of equally built backends can be compared.                    *)
(***************************************************************************)
EXTENDS Integers, Sequences, FiniteSets, TLC

(***************************************************************************)
(* Bounds of the model.                                                    *)
(***************************************************************************)
MaxGold     == 3
MaxFacts    == 3
MaxPage     == 3
MaxPageSize == 2
MaxCalls    == 2
MaxRetries  == 5
MaxStore    == 1
MaxPassages == 4
MaxQuestions == 2

(***************************************************************************)
(* Strings.                                                                *)
(***************************************************************************)
SP == [k |-> " ", n |-> 0]
W(s) == [k |-> s, n |-> 0]
Num(prefix, i) == [k |-> prefix, n |-> i]

RECURSIVE Words(_)
Words(ws) ==
    IF Len(ws) = 0 THEN << >>
    ELSE IF Len(ws) = 1 THEN << W(ws[1]) >>
    ELSE << W(ws[1]), SP >> \o Words(Tail(ws))

GoldEntity(i)  == << Num("gold.entity.", i) >>
GoldTopic(j)   == << Num("gold.topic.", j) >>
NoiseEntity(a) == << Num("noise.entity.", a) >>
NoiseTopic(b)  == << Num("noise.topic.", b) >>
IsAssociatedWith == Words(<< "is", "associated", "with" >>)

verbs ==
    << Words(<< "mentions" >>), Words(<< "is", "unrelated", "to" >>),
       Words(<< "conflicts", "with" >>), Words(<< "precedes" >>),
       Words(<< "follows" >>), Words(<< "uses" >>),
       Words(<< "depends", "on" >>), Words(<< "is", "similar", "to" >>),
       Words(<< "replaces" >>), Words(<< "is", "replaced", "by" >>) >>

(***************************************************************************)
(* str.strip().split(): the maximal runs of non-blank atoms, in order.     *)
(***************************************************************************)
RECURSIVE SplitFrom(_, _, _)
SplitFrom(q, i, cur) ==
    IF i > Len(q) THEN (IF cur = << >> THEN << >> ELSE << cur >>)
    ELSE IF q[i] = SP
         THEN (IF cur = << >> THEN << >> ELSE << cur >>) \o SplitFrom(q, i + 1, << >>)
         ELSE SplitFrom(q, i + 1, Append(cur, q[i]))

\* variant: q.split(" "), every blank ends a token, empty tokens included
RECURSIVE SplitOnBlankFrom(_, _, _)
SplitOnBlankFrom(q, i, cur) ==
    IF i > Len(q) THEN << cur >>
    ELSE IF q[i] = SP
         THEN << cur >> \o SplitOnBlankFrom(q, i + 1, << >>)
         ELSE SplitOnBlankFrom(q, i + 1, Append(cur, q[i]))

SplitOnBlank(q) == SplitOnBlankFrom(q, 1, << >>)

Split(q) == SplitFrom(q, 1, << >>)

(***************************************************************************)
(* random.Random: a seeded stream.  The state is a number below RngMod,    *)
(* every draw advances it by one step of a full-period additive generator  *)
(* and yields the upper part of the state, reduced to the range asked for. *)
(***************************************************************************)
RngMod == 16

Random(seed) == (3 * seed + 1) % RngMod

Advance(s) == (s + 7) % RngMod

RandBelow(s, n) == (s \div 3) % n

\* rng.randint(a, b): [v, rng, err]; an empty range raises ValueError.
RandInt(s, a, b) ==
    IF b < a THEN [v |-> 0, rng |-> s, err |-> TRUE]
    ELSE [v |-> a + RandBelow(s, b - a + 1), rng |-> Advance(s), err |-> FALSE]

\* rng.choice(seq)
Choice(s, seq) == [v |-> seq[1 + RandBelow(s, Len(seq))], rng |-> Advance(s)]

Swap(x, i, j) == [x EXCEPT ![i] = x[j], ![j] = x[i]]

\* rng.shuffle(x): for i in reversed(range(1, len(x))): j = randbelow(i + 1);
\* x[i], x[j] = x[j], x[i]   (0-based i, j; i is 1-based here)
RECURSIVE ShuffleFrom(_, _, _)
ShuffleFrom(s, x, i) ==
    IF i < 2 THEN [v |-> x, rng |-> s]
    ELSE ShuffleFrom(Advance(s), Swap(x, i, 1 + RandBelow(s, i)), i - 1)

Shuffle(s, x) == ShuffleFrom(s, x, Len(x))


(***************************************************************************)
(* Facts.                                                                  *)
(***************************************************************************)
Fact(subject, predicate, object, ts, tags) ==
    [subject |-> subject, predicate |-> predicate, object |-> object,
     ts |-> ts, tags |-> tags, source |-> "synthetic"]

InList(f, xs) == \E i \in 1..Len(xs) : xs[i] = f

Max(a, b) == IF a >= b THEN a ELSE b
Min(a, b) == IF a <= b THEN a ELSE b

(***************************************************************************)
(* from_synthetic, loop by loop.  Each loop is an operator from the local  *)
(* state to the local state; err is set where the code raises.             *)
(***************************************************************************)

\* variant: range(1, gold_entities), the last index is left out
RECURSIVE AlignedGoldShort(_, _, _)
AlignedGoldShort(i, gold_entities, topic_mod) ==
    IF i >= gold_entities THEN [gold |-> << >>, err |-> FALSE]
    ELSE IF topic_mod = 0 THEN [gold |-> << >>, err |-> TRUE]
    ELSE LET rest == AlignedGoldShort(i + 1, gold_entities, topic_mod)
         IN  [gold |-> << Fact(GoldEntity(i), IsAssociatedWith,
                               GoldTopic(i % topic_mod), << 2024, 6, 1 >>,
                               << "gold" >>) >> \o rest.gold,
              err |-> rest.err]

\* 1) the aligned gold facts, one per index 1..gold_entities
RECURSIVE AlignedGold(_, _, _)
AlignedGold(i, gold_entities, topic_mod) ==
    IF i > gold_entities THEN [gold |-> << >>, err |-> FALSE]
    ELSE IF topic_mod = 0 THEN [gold |-> << >>, err |-> TRUE]
    ELSE LET rest == AlignedGold(i + 1, gold_entities, topic_mod)
         IN  [gold |-> << Fact(GoldEntity(i), IsAssociatedWith,
                               GoldTopic(i % topic_mod), << 2024, 6, 1 >>,
                               << "gold" >>) >> \o rest.gold,
              err |-> rest.err]

\* variant: the aligned facts are not deducted from n_gold
extra_gold_all(n_gold, gold_entities) == n_gold

extra_gold(n_gold, gold_entities) == Max(0, n_gold - gold_entities)

\* variant: the extra entity index is drawn from 0..gold_entities*5
RECURSIVE ExtraGoldFromZero(_, _, _, _, _)
ExtraGoldFromZero(s, gold, j, gold_entities, topic_mod) ==
    IF j = 0 THEN [gold |-> gold, rng |-> s, err |-> FALSE]
    ELSE LET x == RandInt(s, 0, gold_entities * 5)
             d == RandInt(x.rng, 1, 28)
         IN  IF x.err \/ topic_mod = 0
             THEN [gold |-> gold, rng |-> x.rng, err |-> TRUE]
             ELSE ExtraGoldFromZero(d.rng,
                            Append(gold, Fact(GoldEntity(x.v), IsAssociatedWith,
                                              GoldTopic(x.v % topic_mod),
                                              << 2024, 7, d.v >>,
                                              << "gold", "extra" >>)),
                            j - 1, gold_entities, topic_mod)

\* the extra gold facts: j more to emit
RECURSIVE ExtraGold(_, _, _, _, _)
ExtraGold(s, gold, j, gold_entities, topic_mod) ==
    IF j = 0 THEN [gold |-> gold, rng |-> s, err |-> FALSE]
    ELSE LET x == RandInt(s, 1, gold_entities * 5)
             d == RandInt(x.rng, 1, 28)
         IN  IF x.err \/ topic_mod = 0
             THEN [gold |-> gold, rng |-> x.rng, err |-> TRUE]
             ELSE ExtraGold(d.rng,
                            Append(gold, Fact(GoldEntity(x.v), IsAssociatedWith,
                                              GoldTopic(x.v % topic_mod),
                                              << 2024, 7, d.v >>,
                                              << "gold", "extra" >>)),
                            j - 1, gold_entities, topic_mod)

\* variant: the facts already in the list are not counted
remaining_all(n_facts, facts) == n_facts

remaining(n_facts, facts) == Max(0, n_facts - Len(facts))

\* 2) the noise facts: r more to emit
RECURSIVE NoiseFacts(_, _, _, _, _)
NoiseFacts(s, facts, r, gold_entities, topic_mod) ==
    IF r = 0 THEN [facts |-> facts, rng |-> s, err |-> FALSE]
    ELSE LET a    == RandInt(s, 1, gold_entities * 5)
             b    == RandInt(a.rng, 0, topic_mod - 1)
             verb == Choice(b.rng, verbs)
             mo   == RandInt(verb.rng, 1, 12)
             dy   == RandInt(mo.rng, 1, 28)
         IN  IF a.err \/ b.err
             THEN [facts |-> facts, rng |-> s, err |-> TRUE]
             ELSE NoiseFacts(dy.rng,
                             Append(facts, Fact(NoiseEntity(a.v), verb.v,
                                                NoiseTopic(b.v),
                                                << 2023, mo.v, dy.v >>,
                                                << "noise" >>)),
                             r - 1, gold_entities, topic_mod)

(***************************************************************************)
(* query.                                                                  *)
(***************************************************************************)
None == << >>
Some(t) == << t >>

\* parts[0] and parts[-1] under try/except: both stay None when parts is empty
ParseQuery(q) ==
    LET parts == Split(q)
    IN  IF Len(parts) = 0 THEN [entity |-> None, topic |-> None]
        ELSE [entity |-> Some(parts[1]), topic |-> Some(parts[Len(parts)])]

\* variant: the object of the fact is not compared
is_gold_match_subject_only(rec, entity, topic) ==
    /\ entity # None /\ rec.subject = entity[1]
    /\ rec.predicate = IsAssociatedWith

is_gold_match(rec, entity, topic) ==
    /\ entity # None /\ rec.subject = entity[1]
    /\ rec.predicate = IsAssociatedWith
    /\ topic # None /\ rec.object = topic[1]

\* variant: only a query with the template's middle part can match
gold_hits_strict(gold, q) ==
    LET p == ParseQuery(q)
        parts == Split(q)
        Hit(g) == /\ is_gold_match(g, p.entity, p.topic)
                  /\ Len(parts) = 5
                  /\ << parts[2][1], SP, parts[3][1], SP, parts[4][1] >> = IsAssociatedWith
    IN  SelectSeq(gold, Hit)

gold_hits(gold, q) ==
    LET p == ParseQuery(q)
        Hit(g) == is_gold_match(g, p.entity, p.topic)
    IN  SelectSeq(gold, Hit)

\* variant: the pool leaves out every fact tagged gold, matching or not
noise_candidates_by_tag(facts, hits) ==
    LET Keep(f) == f.tags[1] # "gold"
    IN  SelectSeq(facts, Keep)

noise_candidates(facts, hits) ==
    LET Keep(f) == ~ InList(f, hits)
    IN  SelectSeq(facts, Keep)

\* variant: the slice includes the element at index end
PySliceInclusive(x, start, end) ==
    LET Norm(i) == IF i < 0 THEN Max(i + Len(x), 0) ELSE Min(i, Len(x))
    IN  SubSeq(x, Norm(start) + 1, Min(Norm(end) + 1, Len(x)))

\* x[start:end] of Python, negative indices counted from the end
PySlice(x, start, end) ==
    LET Norm(i) == IF i < 0 THEN Max(i + Len(x), 0) ELSE Min(i, Len(x))
    IN  SubSeq(x, Norm(start) + 1, Norm(end))

\* variant: pages counted from 0
PageItemsZeroBased(items_full, page, page_size) ==
    LET start == Max(0, page * page_size)
        end   == start + page_size
    IN  PySlice(items_full, start, end)

\* variant: the start of the slice is not clamped at 0
PageItemsNoClamp(items_full, page, page_size) ==
    LET start == (page - 1) * page_size
        end   == start + page_size
    IN  PySlice(items_full, start, end)

PageItems(items_full, page, page_size) ==
    LET start == Max(0, (page - 1) * page_size)
        end   == start + page_size
    IN  PySlice(items_full, start, end)

\* variant: the noise in front of the gold matches
ItemsFullNoiseFirst(hits, noise) == noise \o hits

\* gold first, then noise
ItemsFull(hits, noise) == hits \o noise

\* variant: the shuffle acts on self.facts itself when nothing was filtered out
query_in_place(self, q, mode, page, page_size) ==
    LET hits       == gold_hits(self.gold, q)
        shuffled   == Shuffle(self.rng, noise_candidates(self.facts, hits))
        items_full == ItemsFull(hits, shuffled.v)
    IN  [items |-> IF mode = "fat" THEN items_full
                   ELSE PageItems(items_full, page, page_size),
         hits  |-> hits,
         full  |-> items_full,
         facts |-> IF hits = << >> THEN shuffled.v ELSE self.facts,
         gold  |-> self.gold,
         rng   |-> shuffled.rng]

\* the whole call: the items returned and the instance fields afterwards
query(self, q, mode, page, page_size) ==
    LET hits       == gold_hits(self.gold, q)
        shuffled   == Shuffle(self.rng, noise_candidates(self.facts, hits))
        items_full == ItemsFull(hits, shuffled.v)
    IN  [items |-> IF mode = "fat" THEN items_full
                   ELSE PageItems(items_full, page, page_size),
         hits  |-> hits,
         full  |-> items_full,
         facts |-> self.facts,
         gold  |-> self.gold,
         rng   |-> shuffled.rng]

(***************************************************************************)
(* The state.  pc is the position of from_synthetic for each instance      *)
(* ("ready" once the backend is returned, "error" when it raised); args    *)
(* are the arguments of from_synthetic; last is the latest query call and  *)
(* its result; hist is the list of calls a recording caller has made.      *)
(***************************************************************************)
VARIABLES pc, args, rng, gold, facts, last, hist

\* The memory side (runners/ and adapters/): store is the memory store of the
\* service, add the frame of safe_add, srch the frame of LettaAdapter.search,
\* run the frame of a runner.
VARIABLES store, add, srch, run

backend == << pc, args, rng, gold, facts, last, hist >>
memory == << store, add, srch, run >>

vars == << pc, args, rng, gold, facts, last, hist, store, add, srch, run >>

Insts == {1, 2}

\* variant: one generator for every instance
StreamShared(b) == 1

\* the generator an instance draws from: its own (rng = random.Random(seed),
\* self.rng = rng)
Stream(b) == b

\* variant: the query shuffle draws from the generator of instance 1
SelfSharedRng(b) == [facts |-> facts[b], gold |-> gold[b], rng |-> rng[1]]

Self(b) == [facts |-> facts[b], gold |-> gold[b], rng |-> rng[Stream(b)]]

Seeds == 0..1
GoldEntities == 0..2
TopicMods == 0..2
Pages == (0 - 1)..MaxPage
PageSizes == 1..MaxPageSize

Params ==
    [n_facts : 0..MaxFacts, n_gold : 0..MaxGold, seed : Seeds,
     gold_entities : GoldEntities, topic_mod : TopicMods]

Template(i, j) == GoldEntity(i) \o << SP >> \o IsAssociatedWith \o << SP >> \o GoldTopic(j)

Queries ==
    { Template(i, j) : i \in GoldEntities \ {0}, j \in 0..1 }
    \cup { << >>, << SP, SP >>, GoldEntity(1),
           GoldEntity(1) \o << SP >> \o GoldTopic(1),
           GoldEntity(1) \o << SP >> \o Words(<< "mentions" >>) \o << SP >> \o GoldTopic(1),
           << SP >> \o Template(1, 1) \o << SP, SP >> }

TypeOK ==
    /\ pc \in [Insts -> {"new", "gold", "extra", "noise", "shuffle", "ready", "error"}]
    /\ args \in [Insts -> Params]
    /\ rng \in [Insts -> 0..(RngMod - 1)]
    /\ \A b \in Insts : Len(last[b]) <= 1 /\ Len(hist[b]) <= MaxCalls

Init ==
    /\ pc = [b \in Insts |-> "new"]
    /\ \E p \in Params : args = [b \in Insts |-> p]
    /\ rng = [b \in Insts |-> 0]
    /\ gold = [b \in Insts |-> << >>]
    /\ facts = [b \in Insts |-> << >>]
    /\ last = [b \in Insts |-> << >>]
    /\ hist = [b \in Insts |-> << >>]
    /\ store = << >>
    /\ add = [pc |-> "idle"]
    /\ srch = [pc |-> "idle"]
    /\ run = [pc |-> "idle"]

\* rng = random.Random(seed); gold = []
NewRandom(b) ==
    /\ pc[b] = "new"
    /\ rng' = [rng EXCEPT ![Stream(b)] = Random(args[b].seed)]
    /\ gold' = [gold EXCEPT ![b] = << >>]
    /\ pc' = [pc EXCEPT ![b] = "gold"]
    /\ UNCHANGED << args, facts, last, hist >>

GoldLoop(b) ==
    /\ pc[b] = "gold"
    /\ LET r == AlignedGold(1, args[b].gold_entities, args[b].topic_mod)
       IN  IF r.err
           THEN pc' = [pc EXCEPT ![b] = "error"] /\ UNCHANGED gold
           ELSE pc' = [pc EXCEPT ![b] = "extra"] /\ gold' = [gold EXCEPT ![b] = r.gold]
    /\ UNCHANGED << args, rng, facts, last, hist >>

ExtraLoop(b) ==
    /\ pc[b] = "extra"
    /\ LET r == ExtraGold(rng[Stream(b)], gold[b],
                          extra_gold(args[b].n_gold, args[b].gold_entities),
                          args[b].gold_entities, args[b].topic_mod)
       IN  /\ rng' = [rng EXCEPT ![Stream(b)] = r.rng]
           /\ IF r.err
              THEN pc' = [pc EXCEPT ![b] = "error"] /\ UNCHANGED gold
              ELSE pc' = [pc EXCEPT ![b] = "noise"] /\ gold' = [gold EXCEPT ![b] = r.gold]
    /\ UNCHANGED << args, facts, last, hist >>

\* facts = list(gold), then the noise loop
NoiseLoop(b) ==
    /\ pc[b] = "noise"
    /\ LET r == NoiseFacts(rng[Stream(b)], gold[b],
                           remaining(args[b].n_facts, gold[b]),
                           args[b].gold_entities, args[b].topic_mod)
       IN  /\ rng' = [rng EXCEPT ![Stream(b)] = r.rng]
           /\ IF r.err
              THEN pc' = [pc EXCEPT ![b] = "error"] /\ UNCHANGED facts
              ELSE pc' = [pc EXCEPT ![b] = "shuffle"] /\ facts' = [facts EXCEPT ![b] = r.facts]
    /\ UNCHANGED << args, gold, last, hist >>

\* rng.shuffle(facts); return cls(facts=facts, gold=gold, rng=rng)
ShuffleReturn(b) ==
    /\ pc[b] = "shuffle"
    /\ LET r == Shuffle(rng[Stream(b)], facts[b])
       IN  /\ rng' = [rng EXCEPT ![Stream(b)] = r.rng]
           /\ facts' = [facts EXCEPT ![b] = r.v]
    /\ pc' = [pc EXCEPT ![b] = "ready"]
    /\ UNCHANGED << args, gold, last, hist >>

Call(b, q, mode, page, page_size) ==
    LET r == query(Self(b), q, mode, page, page_size)
    IN  [q |-> q, mode |-> mode, page |-> page, page_size |-> page_size,
         items |-> r.items, hits |-> r.hits, full |-> r.full]

\* One call at a time: a call is made when no result is outstanding.
QueryCore(b, q, mode, page, page_size) ==
    /\ pc[b] = "ready"
    /\ last[b] = << >>
    /\ LET r == query(Self(b), q, mode, page, page_size)
       IN  /\ facts' = [facts EXCEPT ![b] = r.facts]
           /\ gold' = [gold EXCEPT ![b] = r.gold]
           /\ rng' = [rng EXCEPT ![Stream(b)] = r.rng]
    /\ last' = [last EXCEPT ![b] = << Call(b, q, mode, page, page_size) >>]
    /\ UNCHANGED << pc, args >>

\* query(q): mode = "fat", page = 1, page_size = 50 by default
QueryFat(b, q) ==
    /\ QueryCore(b, q, "fat", 1, 50)
    /\ UNCHANGED hist

QueryPaged(b, q, page, page_size) ==
    /\ QueryCore(b, q, "paged", page, page_size)
    /\ UNCHANGED hist

\* the caller takes the result
Return(b) ==
    /\ last[b] # << >>
    /\ last' = [last EXCEPT ![b] = << >>]
    /\ UNCHANGED << pc, args, rng, gold, facts, hist >>

Next ==
    \E b \in {1} :
        \/ NewRandom(b) /\ UNCHANGED memory
        \/ GoldLoop(b) /\ UNCHANGED memory
        \/ ExtraLoop(b) /\ UNCHANGED memory
        \/ NoiseLoop(b) /\ UNCHANGED memory
        \/ ShuffleReturn(b) /\ UNCHANGED memory
        \/ \E q \in Queries : QueryFat(b, q) /\ UNCHANGED memory
        \/ \E q \in Queries, page \in Pages, page_size \in PageSizes :
               QueryPaged(b, q, page, page_size) /\ UNCHANGED memory
        \/ Return(b) /\ UNCHANGED memory

Spec == Init /\ [][Next]_vars

(***************************************************************************)
(* Two instances built from the same arguments, each with a caller that    *)
(* records its calls and their results (at most MaxCalls of them).         *)
(***************************************************************************)
RunParams ==
    {p \in Params : p.n_facts = MaxFacts /\ p.gold_entities = 1 /\ p.topic_mod = 2}

RunCalls ==
    { [q |-> Template(1, 1), mode |-> "fat", page |-> 1, page_size |-> 50] }
    \cup { [q |-> Template(1, 1), mode |-> "paged", page |-> p, page_size |-> MaxPageSize] :
             p \in 1..MaxCalls }

RecordedQuery(b, q, mode, page, page_size) ==
    /\ Len(hist[b]) < MaxCalls
    /\ QueryCore(b, q, mode, page, page_size)
    /\ hist' = [hist EXCEPT ![b] = Append(hist[b], Call(b, q, mode, page, page_size))]

NextPair ==
    \E b \in Insts :
        \/ NewRandom(b) /\ UNCHANGED memory
        \/ GoldLoop(b) /\ UNCHANGED memory
        \/ ExtraLoop(b) /\ UNCHANGED memory
        \/ NoiseLoop(b) /\ UNCHANGED memory
        \/ ShuffleReturn(b) /\ UNCHANGED memory
        \/ /\ args[b] \in RunParams
           /\ \E c \in RunCalls : RecordedQuery(b, c.q, c.mode, c.page, c.page_size)
           /\ UNCHANGED memory
        \/ Return(b) /\ UNCHANGED memory

SpecPair == Init /\ [][NextPair]_vars

(***************************************************************************)
(* runners/run_mem0.py, safe_add: client.add with exponential backoff.     *)
(* Delays are counted in tenths of a second.  An exception message is a    *)
(* string; the service answers every call with success or with one of      *)
(* ErrorMsgs.  A text the service accepts is appended to the store.        *)
(***************************************************************************)
BaseDelay == 4
MaxDelay == 60
DefaultMaxRetries == 5

RetryCodes == {"429", "502", "503", "504"}

ErrorMsgs ==
    { Words(<< "http", "429", "too", "many", "requests" >>),
      Words(<< "502", "bad", "gateway" >>),
      Words(<< "503" >>),
      Words(<< "gateway", "timeout", "504" >>),
      Words(<< "http", "500" >>),
      Words(<< "invalid", "api", "key" >>) }

\* variant: every failure is retried
RetryableAlways(msg) == TRUE

\* any(code in msg for code in ("429", "502", "503", "504"))
Retryable(msg) == \E code \in RetryCodes : InList(W(code), msg)

\* delay = min(delay * 2, 6.0)
NextDelay(delay) == Min(delay * 2, MaxDelay)

Texts == { Template(1, 1) \o << W(".") >>, Template(2, 2) \o << W(".") >> }

\* safe_add(client, text, user_id, max_retries): delay = base_delay and the
\* loop over range(max_retries + 1) is entered (an empty range returns None)
SafeAddCall(text, max_retries) ==
    /\ add.pc = "idle"
    /\ add' = [pc |-> IF max_retries + 1 > 0 THEN "try" ELSE "done",
               text |-> text, max_retries |-> max_retries,
               i |-> 0, delay |-> BaseDelay,
               outcomes |-> << >>, slept |-> << >>,
               result |-> "None"]

\* client.add(...) succeeds: return True
ClientAddOk ==
    /\ add.pc = "try"
    /\ store' = Append(store, add.text)
    /\ add' = [add EXCEPT !.pc = "done", !.result = "True",
                          !.outcomes = Append(@, << W("ok") >>)]

\* client.add(...) raises an exception with message msg
ClientAddFails(msg) ==
    /\ add.pc = "try"
    /\ IF Retryable(msg) /\ add.i < add.max_retries
       THEN add' = [add EXCEPT !.slept = Append(@, add.delay),
                               !.delay = NextDelay(add.delay),
                               !.i = add.i + 1,
                               !.outcomes = Append(@, msg)]
       ELSE add' = [add EXCEPT !.pc = "done", !.result = "False",
                               !.outcomes = Append(@, msg)]
    /\ UNCHANGED store

\* the caller takes the result
SafeAddReturn ==
    /\ add.pc = "done"
    /\ add' = [pc |-> "idle"]
    /\ UNCHANGED store

InitSafeAdd ==
    /\ Init
    /\ args[1] = [n_facts |-> 0, n_gold |-> 0, seed |-> 0,
                  gold_entities |-> 0, topic_mod |-> 0]

NextSafeAdd ==
    \/ \E text \in Texts, max_retries \in 0..MaxRetries :
           /\ Len(store) < MaxStore
           /\ SafeAddCall(text, max_retries)
           /\ UNCHANGED << backend, store, srch, run >>
    \/ ClientAddOk /\ UNCHANGED << backend, srch, run >>
    \/ \E msg \in ErrorMsgs : ClientAddFails(msg) /\ UNCHANGED << backend, srch, run >>
    \/ SafeAddReturn /\ UNCHANGED << backend, srch, run >>

SpecSafeAdd == InitSafeAdd /\ [][NextSafeAdd]_vars

(***************************************************************************)
(* adapters/letta_adapter.py, LettaAdapter.search and write.  The store is *)
(* the list of passage texts of the agent, oldest first; the id of a       *)
(* passage is its position in the store, and the cursor None is 0.         *)
(* passages.list(search, limit, after, ascending=True) answers with the    *)
(* first limit passages after the cursor that match the search text.       *)
(***************************************************************************)
\* text holds q as a run of consecutive atoms
Contains(text, q) ==
    \E i \in 1..(Len(text) - Len(q) + 1) : SubSeq(text, i, i + Len(q) - 1) = q

\* search=query if query else None
Matches(text, q) == q = << >> \/ Contains(text, q)

\* the first n elements of a set of numbers, ascending
RECURSIVE TakeAsc(_, _)
TakeAsc(S, n) ==
    IF n <= 0 \/ S = {} THEN << >>
    ELSE LET m == CHOOSE x \in S : \A y \in S : x <= y
         IN  << m >> \o TakeAsc(S \ {m}, n - 1)

\* variant: the cursor is not honoured
ListPassagesNoCursor(q, limit, after) ==
    LET ids == TakeAsc({i \in 1..Len(store) : Matches(store[i], q)}, limit)
    IN  [j \in 1..Len(ids) |-> [id |-> ids[j], text |-> store[ids[j]]]]

\* client.agents.passages.list(agent_id, search, limit, after, ascending=True)
ListPassages(q, limit, after) ==
    LET ids == TakeAsc({i \in 1..Len(store) : i > after /\ Matches(store[i], q)}, limit)
    IN  [j \in 1..Len(ids) |-> [id |-> ids[j], text |-> store[ids[j]]]]

\* _to_text(f): "subject predicate object | ts=... | src=..."
ToText(f) ==
    f.subject \o << SP >> \o f.predicate \o << SP >> \o f.object
        \o << SP, W("|"), SP, [k |-> "ts=", n |-> f.ts[3]], SP, W("|"), SP, W("src=synthetic") >>

\* search(query, k, page, page_size): after = None; current = 1;
\* last_page_items = []
SearchCall(q, k, page, page_size) ==
    /\ srch.pc = "idle"
    /\ srch' = [pc |-> "loop", query |-> q, k |-> k, page |-> page,
                page_size |-> page_size, after |-> 0, current |-> 1,
                last_page_items |-> << >>, calls |-> << >>, results |-> << >>]

\* one pass of the loop: while current <= page
ListStep ==
    /\ srch.pc = "loop"
    /\ srch.current <= srch.page
    /\ LET items == ListPassages(srch.query, srch.page_size, srch.after)
           after == IF items # << >> THEN items[Len(items)].id ELSE 0
       IN  srch' = [srch EXCEPT !.last_page_items = items,
                                !.after = after,
                                !.calls = Append(@, srch.after),
                                !.current = IF items = << >> THEN @ ELSE @ + 1,
                                !.pc = IF items = << >> THEN "build" ELSE "loop"]

\* after the loop: results from last_page_items[:k]
SearchResults ==
    /\ \/ srch.pc = "build"
       \/ srch.pc = "loop" /\ srch.current > srch.page
    /\ srch' = [srch EXCEPT !.pc = "done",
                            !.results = PySlice(srch.last_page_items, 0, srch.k)]

\* the caller takes the results
SearchReturn ==
    /\ srch.pc = "done"
    /\ srch' = [pc |-> "idle"]

\* write(facts, scope): one passages.create per fact, in order
RECURSIVE CreatePassages(_, _)
CreatePassages(st, fs) ==
    IF fs = << >> THEN st
    ELSE CreatePassages(Append(st, ToText(Head(fs))), Tail(fs))

write(st, fs, scope) ==
    IF scope # "long_term" \/ fs = << >> THEN st ELSE CreatePassages(st, fs)

NoBackend ==
    /\ pc = [b \in Insts |-> "new"]
    /\ args = [b \in Insts |-> [n_facts |-> 0, n_gold |-> 0, seed |-> 0,
                                 gold_entities |-> 0, topic_mod |-> 0]]
    /\ rng = [b \in Insts |-> 0]
    /\ gold = [b \in Insts |-> << >>]
    /\ facts = [b \in Insts |-> << >>]
    /\ last = [b \in Insts |-> << >>]
    /\ hist = [b \in Insts |-> << >>]

\* what the agent may hold: passages of the gold fact of entity 1 and of a
\* noise fact, in any order
PassageTexts ==
    { ToText(Fact(GoldEntity(1), IsAssociatedWith, GoldTopic(1), << 2024, 6, 1 >>, << "gold" >>)),
      ToText(Fact(NoiseEntity(1), verbs[1], NoiseTopic(0), << 2024, 1, 1 >>, << "noise" >>)) }

Stores == UNION { [1..n -> PassageTexts] : n \in 0..MaxPassages }

SearchKs == 0..2

InitSearch ==
    /\ NoBackend
    /\ store \in Stores
    /\ add = [pc |-> "idle"]
    /\ srch = [pc |-> "idle"]
    /\ run = [pc |-> "idle"]

NextSearch ==
    \/ \E q \in {<< >>, Template(1, 1)}, k \in SearchKs, page \in Pages,
          page_size \in PageSizes :
           SearchCall(q, k, page, page_size) /\ UNCHANGED << backend, store, add, run >>
    \/ ListStep /\ UNCHANGED << backend, store, add, run >>
    \/ SearchResults /\ UNCHANGED << backend, store, add, run >>
    \/ SearchReturn /\ UNCHANGED << backend, store, add, run >>

SpecSearch == InitSearch /\ [][NextSearch]_vars

(***************************************************************************)
(* runners/run_letta.py and runners/run_mem0.py: run.  The frame run holds *)
(* the arguments of run (framework tells the two runners apart), the       *)
(* position pc, the loop variables, the log file as the list of records    *)
(* written, and trace, the list of the calls the runner has made: search   *)
(* (with its outcome), query (backend.query), write (adapter.write or      *)
(* safe_add) and log (log.write).  base is the size of the store when the  *)
(* query at hand was taken up.  All text of the model is lower case.       *)
(***************************************************************************)
MAX_FAT_RETURN == 200
TOPK_FAT_WRITE == 5
TOPK_PAGED_WRITE_PER_PAGE == 2
SearchK == 5
QuestionTopicMod == 10

\* questions = [f"gold.entity.{i} is associated with gold.topic.{i%10}" ...]
questions == [i \in 1..MaxQuestions |-> Template(i, i % QuestionTopicMod)]

\* str.strip()
Strip(q) ==
    LET nb == {i \in 1..Len(q) : q[i] # SP}
    IN  IF nb = {} THEN << >>
        ELSE SubSeq(q, CHOOSE a \in nb : \A c \in nb : a <= c,
                       CHOOSE z \in nb : \A c \in nb : c <= z)

canonical_fact_text(q) ==
    LET t == Strip(q)
    IN  IF t # << >> /\ t[Len(t)] = W(".") THEN t ELSE Append(t, W("."))

fact_to_text(f) ==
    f.subject \o << SP >> \o f.predicate \o << SP >> \o f.object \o << W(".") >>

is_true_hit(q, text) ==
    LET parts == Split(q)
    IN  IF Len(parts) < 3 THEN FALSE
        ELSE Contains(text, parts[1]) /\ Contains(text, parts[Len(parts)])

\* client.search(q, filters=user_id): the memories of the user
ClientSearch(q) == store

\* hit = any(is_true_hit(q, h.get("text","")) for h in hits)
AnyTrueHit(q, hits) == \E i \in 1..Len(hits) : is_true_hit(q, hits[i])

\* variant: the tool is called whatever the search gave
MissAlways(hit) == TRUE

\* if used_memory: pass / else: ...;  if not hit: ...
Miss(hit) == ~ hit

\* if cap_per_page is not None and cap_per_page >= 0: page_items[:cap_per_page]
CapPageItems(page_items, cap_per_page) ==
    IF cap_per_page >= 0 THEN PySlice(page_items, 0, cap_per_page) ELSE page_items

\* the arguments of run; cap_per_page = -1 is no cap
LettaConfigs ==
    [framework : {"Letta"}, mode : {"fat", "paged"}, pages : 1..2,
     page_size : {1, 3}, cap_per_page : {2}]

Mem0Configs ==
    { [framework |-> "Mem0", mode |-> "fat", pages |-> 3, page_size |-> 50,
       cap_per_page |-> 2] }
    \cup { [framework |-> "Mem0", mode |-> "paged", pages |-> c[1], page_size |-> c[2],
            cap_per_page |-> c[3]] :
             c \in { << 1, 2, 0 - 1 >>, << 1, 3, 2 >>, << 2, 1, 1 >>, << 2, 2, 1 >>,
                     << 2, 2, 0 >> } }

\* the backend of a run: gold_entities and topic_mod cover the questions
RunnerArgs ==
    { [n_facts |-> n, n_gold |-> 3, seed |-> 0, gold_entities |-> 2, topic_mod |-> 2] :
        n \in {2, 6} }

\* what an earlier run may have left in the memory
InitialStores ==
    { << >>,
      << ToText(Fact(GoldEntity(1), IsAssociatedWith, GoldTopic(1), << 2024, 6, 1 >>,
                     << "gold" >>)) >> }

\* the answers of the service to client.add during a run
RunMsgs == { Words(<< "503" >>), Words(<< "http", "500" >>) }

Q == questions[run.qi]

NeedsBackend == run.framework = "Letta" \/ run.mode = "paged"

Event(ev) == [ev |-> ev, qi |-> run.qi, phase |-> run.phase, hit |-> run.hit]

InitRun ==
    /\ pc = [b \in Insts |-> "new"]
    /\ \E a \in RunnerArgs : args = [b \in Insts |-> a]
    /\ rng = [b \in Insts |-> 0]
    /\ gold = [b \in Insts |-> << >>]
    /\ facts = [b \in Insts |-> << >>]
    /\ last = [b \in Insts |-> << >>]
    /\ hist = [b \in Insts |-> << >>]
    /\ store \in InitialStores
    /\ add = [pc |-> "idle"]
    /\ srch = [pc |-> "idle"]
    /\ \E c \in LettaConfigs \cup Mem0Configs :
           run = [framework |-> c.framework, mode |-> c.mode, pages |-> c.pages,
                  page_size |-> c.page_size, cap_per_page |-> c.cap_per_page,
                  pc |-> "build", phase |-> "pass1", qi |-> 1, p |-> 1,
                  hit |-> FALSE, wrote |-> 0, pending |-> << >>, base |-> 0,
                  log |-> << >>, trace |-> << >>]

\* backend = MegaFactsBackend.from_synthetic(...), step by step
RunBuild ==
    /\ run.pc = "build"
    /\ NeedsBackend
    /\ \/ NewRandom(1)
       \/ GoldLoop(1)
       \/ ExtraLoop(1)
       \/ NoiseLoop(1)
       \/ ShuffleReturn(1)
    /\ UNCHANGED memory

\* with open(out, "w") as log: the first loop is entered
RunOpenLog ==
    /\ run.pc = "build"
    /\ NeedsBackend => pc[1] = "ready"
    /\ run' = [run EXCEPT !.pc = "search"]
    /\ UNCHANGED << backend, store, add, srch >>

\* Letta: mem_hits = adapter.search(q, k=5, page=1, page_size=page_size)
RunLettaSearch ==
    /\ run.pc = "search"
    /\ run.framework = "Letta"
    /\ run.qi <= MaxQuestions
    /\ SearchCall(Q, SearchK, 1, run.page_size)
    /\ run' = [run EXCEPT !.pc = "searching", !.base = Len(store)]
    /\ UNCHANGED << backend, store, add >>

\* the adapter at work
RunAdapterSteps ==
    /\ run.pc = "searching"
    /\ ListStep \/ SearchResults
    /\ UNCHANGED << backend, store, add, run >>

\* used_memory = len(mem_hits) > 0; items_used = 0
RunLettaSearched ==
    /\ run.pc = "searching"
    /\ srch.pc = "done"
    /\ LET used_memory == Len(srch.results) > 0
       IN  run' = [run EXCEPT !.hit = used_memory, !.wrote = 0, !.p = 1,
                              !.pc = IF Miss(used_memory) THEN "tool" ELSE "log",
                              !.trace = Append(@, [Event("search") EXCEPT !.hit = used_memory])]
    /\ srch' = [pc |-> "idle"]
    /\ UNCHANGED << backend, store, add >>

\* Mem0: resp = client.search(...); hit = any(is_true_hit ...); wrote = 0
RunMem0Search ==
    /\ run.pc = "search"
    /\ run.framework = "Mem0"
    /\ run.qi <= MaxQuestions
    /\ LET hit == AnyTrueHit(Q, ClientSearch(Q))
       IN  run' = [run EXCEPT !.hit = hit, !.wrote = 0, !.p = 1, !.base = Len(store),
                              !.pc = IF run.phase = "pass1" /\ Miss(hit) THEN "tool" ELSE "log",
                              !.trace = Append(@, [Event("search") EXCEPT !.hit = hit])]
    /\ UNCHANGED << backend, store, add, srch >>

\* resp = backend.query(q, mode="fat") of the Letta runner
RunLettaFatQuery ==
    /\ run.pc = "tool"
    /\ run.framework = "Letta"
    /\ run.mode = "fat"
    /\ QueryCore(1, Q, "fat", 1, 50)
    /\ run' = [run EXCEPT !.pc = "got", !.trace = Append(@, Event("query"))]
    /\ UNCHANGED << hist, store, add, srch >>

\* items = resp["items"][:MAX_FAT_RETURN]; to_write = items[:TOPK_FAT_WRITE];
\* adapter.write(to_write, scope="long_term"); items_used = len(to_write)
RunLettaFatWrite ==
    /\ run.pc = "got"
    /\ run.framework = "Letta"
    /\ run.mode = "fat"
    /\ LET items == PySlice(last[1][1].items, 0, MAX_FAT_RETURN)
           to_write == PySlice(items, 0, TOPK_FAT_WRITE)
       IN  /\ store' = write(store, to_write, "long_term")
           /\ run' = [run EXCEPT !.pc = "log", !.wrote = Len(to_write),
                                  !.trace = Append(@, Event("write"))]
    /\ last' = [last EXCEPT ![1] = << >>]
    /\ UNCHANGED << pc, args, rng, gold, facts, hist, add, srch >>

\* for p in range(1, pages + 1): resp = backend.query(q, mode="paged", page=p, ...)
RunPagedQuery ==
    /\ run.pc = "tool"
    /\ run.mode = "paged"
    /\ run.p <= run.pages
    /\ QueryCore(1, Q, "paged", run.p, run.page_size)
    /\ run' = [run EXCEPT !.pc = "got", !.trace = Append(@, Event("query"))]
    /\ UNCHANGED << hist, store, add, srch >>

\* Letta: to_write = page_items[:TOPK_PAGED_WRITE_PER_PAGE];
\* if to_write: adapter.write(...); all_items_written += len(to_write)
RunLettaPagedWrite ==
    /\ run.pc = "got"
    /\ run.framework = "Letta"
    /\ run.mode = "paged"
    /\ LET page_items == last[1][1].items
           to_write == PySlice(page_items, 0, TOPK_PAGED_WRITE_PER_PAGE)
       IN  IF to_write # << >>
           THEN /\ store' = write(store, to_write, "long_term")
                /\ run' = [run EXCEPT !.pc = "tool", !.p = @ + 1,
                                       !.wrote = @ + Len(to_write),
                                       !.trace = Append(@, Event("write"))]
           ELSE /\ store' = store
                /\ run' = [run EXCEPT !.pc = "tool", !.p = @ + 1]
    /\ last' = [last EXCEPT ![1] = << >>]
    /\ UNCHANGED << pc, args, rng, gold, facts, hist, add, srch >>

\* the page loop is over: items_used = all_items_written; wrote = total_written
RunPagedDone ==
    /\ run.pc = "tool"
    /\ run.mode = "paged"
    /\ run.p > run.pages
    /\ run' = [run EXCEPT !.pc = "log"]
    /\ UNCHANGED << backend, store, add, srch >>

\* Mem0, fat: text = canonical_fact_text(q); safe_add(client, text, ns)
RunMem0FatAdd ==
    /\ run.pc = "tool"
    /\ run.framework = "Mem0"
    /\ run.mode = "fat"
    /\ SafeAddCall(canonical_fact_text(Q), DefaultMaxRetries)
    /\ run' = [run EXCEPT !.pc = "adding", !.trace = Append(@, Event("write"))]
    /\ UNCHANGED << backend, store, srch >>

\* safe_add at work
RunSafeAddSteps ==
    /\ run.pc = "adding"
    /\ ClientAddOk \/ \E msg \in RunMsgs : ClientAddFails(msg)
    /\ UNCHANGED << backend, srch, run >>

\* Mem0, fat: wrote = 1
RunMem0FatAdded ==
    /\ run.pc = "adding"
    /\ run.mode = "fat"
    /\ add.pc = "done"
    /\ add' = [pc |-> "idle"]
    /\ run' = [run EXCEPT !.pc = "log", !.wrote = 1]
    /\ UNCHANGED << backend, store, srch >>

\* Mem0, paged: page_items = resp_tool.get("items", []), capped
RunMem0PageItems ==
    /\ run.pc = "got"
    /\ run.framework = "Mem0"
    /\ run' = [run EXCEPT !.pc = "adds",
                          !.pending = CapPageItems(last[1][1].items, run.cap_per_page)]
    /\ last' = [last EXCEPT ![1] = << >>]
    /\ UNCHANGED << pc, args, rng, gold, facts, hist, store, add, srch >>

\* for f in page_items: safe_add(client, fact_to_text(f), ns)
RunMem0AddNext ==
    /\ run.pc = "adds"
    /\ run.pending # << >>
    /\ SafeAddCall(fact_to_text(Head(run.pending)), DefaultMaxRetries)
    /\ run' = [run EXCEPT !.pc = "adding", !.pending = Tail(@),
                          !.trace = Append(@, Event("write"))]
    /\ UNCHANGED << backend, store, srch >>

\* if safe_add(...): total_written += 1
RunMem0Added ==
    /\ run.pc = "adding"
    /\ run.mode = "paged"
    /\ add.pc = "done"
    /\ add' = [pc |-> "idle"]
    /\ run' = [run EXCEPT !.pc = "adds",
                          !.wrote = IF add.result = "True" THEN @ + 1 ELSE @]
    /\ UNCHANGED << backend, store, srch >>

\* the page is done: next p
RunMem0PageDone ==
    /\ run.pc = "adds"
    /\ run.pending = << >>
    /\ run' = [run EXCEPT !.pc = "tool", !.p = @ + 1]
    /\ UNCHANGED << backend, store, add, srch >>

\* log.write(json.dumps(rec) + "\n"); the next question.  stored is the
\* growth of the store since the question was taken up.
RunLog ==
    /\ run.pc = "log"
    /\ LET rec == [framework |-> run.framework, phase |-> run.phase, query |-> Q,
                   mode |-> run.mode, used_memory |-> run.hit, items |-> run.wrote,
                   stored |-> Len(store) - run.base]
       IN  run' = [run EXCEPT !.pc = "search", !.qi = @ + 1,
                              !.log = Append(@, rec),
                              !.trace = Append(@, Event("log"))]
    /\ UNCHANGED << backend, store, add, srch >>

\* Mem0: the first loop is over, Pass 2 goes through the questions again
RunPass2 ==
    /\ run.pc = "search"
    /\ run.qi > MaxQuestions
    /\ run.framework = "Mem0"
    /\ run.phase = "pass1"
    /\ run' = [run EXCEPT !.phase = "pass2", !.qi = 1]
    /\ UNCHANGED << backend, store, add, srch >>

\* the last loop is over: the log is closed
RunEnd ==
    /\ run.pc = "search"
    /\ run.qi > MaxQuestions
    /\ run.framework = "Letta" \/ run.phase = "pass2"
    /\ run' = [run EXCEPT !.pc = "end"]
    /\ UNCHANGED << backend, store, add, srch >>

NextRun ==
    \/ RunBuild
    \/ RunOpenLog
    \/ RunLettaSearch
    \/ RunAdapterSteps
    \/ RunLettaSearched
    \/ RunMem0Search
    \/ RunLettaFatQuery
    \/ RunLettaFatWrite
    \/ RunPagedQuery
    \/ RunLettaPagedWrite
    \/ RunPagedDone
    \/ RunMem0FatAdd
    \/ RunSafeAddSteps
    \/ RunMem0FatAdded
    \/ RunMem0PageItems
    \/ RunMem0AddNext
    \/ RunMem0Added
    \/ RunMem0PageDone
    \/ RunLog
    \/ RunPass2
    \/ RunEnd

SpecRun == InitRun /\ [][NextRun]_vars

(***************************************************************************)
(* Properties.                                                             *)
(***************************************************************************)
Ready(b) == pc[b] = "ready"
Called(b) == last[b] # << >>
L(b) == last[b][1]

Count(v, xs) == Cardinality({i \in 1..Len(xs) : xs[i] = v})
Ceil(a, b) == (a + b - 1) \div b

\* the first and the last whitespace token of q, read off q directly
NonBlank(q) == {i \in 1..Len(q) : q[i] # SP}
FirstToken(q) ==
    LET i0 == CHOOSE i \in NonBlank(q) : \A j \in NonBlank(q) : i <= j
        j0 == CHOOSE j \in i0..Len(q) :
                  /\ \A k \in i0..j : q[k] # SP
                  /\ (j = Len(q) \/ q[j + 1] = SP)
    IN  SubSeq(q, i0, j0)
LastToken(q) ==
    LET j1 == CHOOSE j \in NonBlank(q) : \A i \in NonBlank(q) : i <= j
        i1 == CHOOSE i \in 1..j1 :
                  /\ \A k \in i..j1 : q[k] # SP
                  /\ (i = 1 \/ q[i - 1] = SP)
    IN  SubSeq(q, i1, j1)

\* the n-th smallest element of a set of numbers
Nth(S, n) == CHOOSE k \in S : Cardinality({m \in S : m <= k}) = n

AlignedFact(i, topic_mod) ==
    Fact(GoldEntity(i), IsAssociatedWith, GoldTopic(i % topic_mod),
         << 2024, 6, 1 >>, << "gold" >>)

\* C1: the template query for index i in 1..gold_entities returns the aligned
\* gold fact of i (subject gold.entity.i, predicate "is associated with",
\* object gold.topic.(i mod topic_mod)) as items[0], in fat mode and in paged
\* mode on page 1 with page_size >= 1, whatever queries came before.
C1_TemplateQueryGoldFirst ==
    \A b \in Insts : Called(b) =>
        \A i \in 1..args[b].gold_entities :
            ( /\ args[b].topic_mod >= 1
              /\ L(b).q = Template(i, i % args[b].topic_mod)
              /\ (L(b).mode = "fat" \/ (L(b).page = 1 /\ L(b).page_size >= 1)) )
            => /\ Len(L(b).items) >= 1
               /\ L(b).items[1] = AlignedFact(i, args[b].topic_mod)
               /\ L(b).items[1] = gold[b][i]

C1_Witness ==
    \E b \in Insts : /\ Called(b)
                     /\ L(b).mode = "paged" /\ L(b).page = 1
                     /\ Len(L(b).hits) >= 2
                     /\ \E i \in 1..args[b].gold_entities :
                            /\ L(b).q = Template(i, i % args[b].topic_mod)
                            /\ L(b).items[1] = gold[b][i]

C2_Matches(g, q) ==
    /\ NonBlank(q) # {}
    /\ g.subject = FirstToken(q)
    /\ g.predicate = IsAssociatedWith
    /\ g.object = LastToken(q)

\* C2: the gold-match prefix of a call holds exactly the facts of the gold
\* list whose subject is the first token of q, whose predicate is "is
\* associated with" and whose object is the last token of q; they stand at
\* the front of the result in the order they have in the gold list.
C2_GoldMatchPrefix ==
    \A b \in Insts : Called(b) =>
        LET c   == L(b)
            idx == {k \in 1..Len(gold[b]) : C2_Matches(gold[b][k], c.q)}
        IN  /\ Len(c.hits) = Cardinality(idx)
            /\ Len(c.full) >= Len(c.hits)
            /\ \A n \in 1..Len(c.hits) :
                   /\ c.hits[n] = gold[b][Nth(idx, n)]
                   /\ c.full[n] = c.hits[n]
                   /\ c.mode = "fat" => c.items[n] = c.hits[n]

C2_Witness ==
    \E b \in Insts : /\ Called(b)
                     /\ L(b).mode = "fat"
                     /\ Len(L(b).hits) >= 2
                     /\ L(b).hits[1].ts # L(b).hits[2].ts
                     /\ L(b).items[2] = L(b).hits[2]
                     /\ \E k \in 1..Len(gold[b]) : ~ InList(gold[b][k], L(b).hits)

\* C3: in fat mode the result is the gold matches followed by the noise
\* pool; the pool holds exactly the corpus facts outside the gold-match set
\* (gold facts that do not match the query included), nothing is cut, and
\* every fact occurs as often as in the corpus.
C3_FatIsWholeCorpus ==
    \A b \in Insts : (Called(b) /\ L(b).mode = "fat") =>
        LET c     == L(b)
            h     == Len(c.hits)
            noise == SubSeq(c.items, h + 1, Len(c.items))
        IN  /\ Len(c.items) = Len(facts[b])
            /\ SubSeq(c.items, 1, h) = c.hits
            /\ \A k \in 1..Len(facts[b]) :
                   /\ Count(facts[b][k], c.items) = Count(facts[b][k], facts[b])
                   /\ Count(facts[b][k], noise) =
                          IF InList(facts[b][k], c.hits) THEN 0
                          ELSE Count(facts[b][k], facts[b])
            /\ \A n \in 1..Len(noise) : InList(noise[n], facts[b])

C3_Witness ==
    \E b \in Insts : /\ Called(b) /\ L(b).mode = "fat"
                     /\ Len(L(b).hits) >= 1
                     /\ \E n \in (Len(L(b).hits) + 1)..Len(L(b).items) :
                            L(b).items[n].tags = << "gold", "extra" >>
                     /\ \E n \in (Len(L(b).hits) + 1)..Len(L(b).items) :
                            L(b).items[n].tags = << "noise" >>

\* C4: in paged mode with page >= 1 and page_size >= 1 the result is the
\* elements at 0-based positions (page-1)*page_size .. page*page_size - 1 of
\* the sequence gold matches + shuffled noise of that call, cut at its end.
C4_PagedIsSlice ==
    \A b \in Insts :
        (Called(b) /\ L(b).mode = "paged" /\ L(b).page >= 1 /\ L(b).page_size >= 1) =>
        LET c  == L(b)
            lo == (c.page - 1) * c.page_size
            hi == Min(c.page * c.page_size, Len(c.full))
        IN  /\ Len(c.full) = Len(facts[b])
            /\ Len(c.items) = Max(0, hi - lo)
            /\ \A n \in 1..Len(c.items) : c.items[n] = c.full[lo + n]

C4_Witness ==
    \E b \in Insts : /\ Called(b) /\ L(b).mode = "paged"
                     /\ L(b).page = 2 /\ L(b).page_size = 2
                     /\ Len(L(b).full) = 3
                     /\ Len(L(b).hits) >= 1
                     /\ L(b).items = << L(b).full[3] >>

OutOfRange(page, page_size, total) == page < 1 \/ page > Ceil(total, page_size)

\* C5 as stated: every page outside 1..ceil(len(corpus)/page_size), a page
\* <= 0 included, gives an empty items list.
C5_OutOfRangePageIsEmpty ==
    \A b \in Insts :
        (Called(b) /\ L(b).mode = "paged" /\ L(b).page_size >= 1
         /\ OutOfRange(L(b).page, L(b).page_size, Len(facts[b])))
        => L(b).items = << >>

\* C5, amended: a page beyond ceil(len(corpus)/page_size) gives an empty
\* items list; a page <= 0 is clamped to the start of the sequence and gives
\* its first page_size elements, the slice of page 1.
C5_PageBeyondEndIsEmpty ==
    \A b \in Insts :
        (Called(b) /\ L(b).mode = "paged" /\ L(b).page_size >= 1) =>
        /\ L(b).page > Ceil(Len(facts[b]), L(b).page_size) => L(b).items = << >>
        /\ L(b).page <= 0 =>
               L(b).items = SubSeq(L(b).full, 1, Min(L(b).page_size, Len(L(b).full)))

C5_Witness ==
    \E b \in Insts : /\ Called(b) /\ L(b).mode = "paged"
                     /\ L(b).page_size = 2 /\ L(b).page = 3
                     /\ Len(facts[b]) = 3
                     /\ L(b).items = << >>

\* C9: a query leaves the facts list and the gold list of a built backend as
\* they are, element for element; of the instance only the generator moves.
C9_QueryKeepsCorpus ==
    [][\A b \in Insts : Ready(b) =>
           /\ facts'[b] = facts[b]
           /\ gold'[b] = gold[b]
           /\ pc'[b] = pc[b]]_vars

C9_Witness ==
    \E b \in Insts : /\ Called(b)
                     /\ L(b).hits = << >>
                     /\ Len(facts[b]) >= 3
                     /\ Len(L(b).full) = Len(facts[b])
                     /\ L(b).full # facts[b]
                     /\ rng[b] # Random(args[b].seed)

\* C10: a backend built with n_facts >= n_gold holds
\* max(n_facts, gold_entities + max(0, n_gold - gold_entities)) facts.
C10_CorpusSize ==
    \A b \in Insts :
        (Ready(b) /\ args[b].n_facts >= args[b].n_gold) =>
        Len(facts[b]) =
            Max(args[b].n_facts,
                args[b].gold_entities + Max(0, args[b].n_gold - args[b].gold_entities))

C10_Witness ==
    \E b \in Insts : /\ Ready(b)
                     /\ args[b].n_gold > args[b].gold_entities
                     /\ args[b].n_facts > args[b].n_gold
                     /\ Len(facts[b]) = args[b].n_facts

SameCall(c, d) ==
    /\ c.q = d.q /\ c.mode = d.mode
    /\ c.page = d.page /\ c.page_size = d.page_size

RECURSIVE SumLens(_, _)
SumLens(h, k) == IF k >= Len(h) THEN 0 ELSE Len(h[k + 1].items) + SumLens(h, k + 1)

\* the calls of h after the first k are the pages 1..ceil(total/page_size) of
\* one query, in order
IsSweep(h, k, total) ==
    /\ k < Len(h)
    /\ Len(h) - k = Ceil(total, h[k + 1].page_size)
    /\ \A j \in 1..(Len(h) - k) :
           /\ h[k + j].mode = "paged"
           /\ h[k + j].q = h[k + 1].q
           /\ h[k + j].page_size = h[k + 1].page_size
           /\ h[k + j].page = j

\* C6: the item counts of the paged calls page = 1..ceil(total/page_size) of
\* a query on one backend add up to the item count of one fat call of the
\* query on a fresh backend built from the same arguments.
C6_PagingConsistency ==
    \A b \in Insts, f \in Insts : \A k \in 0..Len(hist[b]) :
        ( /\ b # f /\ Ready(b) /\ Ready(f)
          /\ IsSweep(hist[b], k, Len(facts[b]))
          /\ Len(hist[f]) >= 1
          /\ hist[f][1].mode = "fat"
          /\ hist[f][1].q = hist[b][k + 1].q )
        => SumLens(hist[b], k) = Len(hist[f][1].items)

C6_Witness ==
    /\ Ready(1) /\ Ready(2)
    /\ IsSweep(hist[1], 0, Len(facts[1]))
    /\ Len(hist[1]) = 2
    /\ Len(hist[1][2].items) = 1
    /\ hist[1][1].full # hist[1][2].full
    /\ Len(hist[2]) >= 1 /\ hist[2][1].mode = "fat"
    /\ Len(hist[2][1].items) = 3

\* C7: two from_synthetic calls with the same arguments give the same gold
\* list and the same shuffled corpus (or both raise), before any query.
C7_ConstructionDeterministic ==
    ( /\ args[1] = args[2]
      /\ pc[1] \in {"ready", "error"} /\ pc[2] \in {"ready", "error"}
      /\ hist[1] = << >> /\ hist[2] = << >>
      /\ last[1] = << >> /\ last[2] = << >> )
    => /\ pc[1] = pc[2]
       /\ Ready(1) => (gold[1] = gold[2] /\ facts[1] = facts[2])

C7_Witness ==
    /\ Ready(1) /\ Ready(2)
    /\ hist[1] = << >> /\ hist[2] = << >>
    /\ args[1].n_gold > args[1].gold_entities
    /\ args[1].n_facts > args[1].n_gold
    /\ facts[1] = facts[2]
    /\ SubSeq(facts[1], 1, Len(gold[1])) # gold[1]

\* C8: two backends built from the same arguments that have received the
\* same calls in the same order have returned the same results, call for
\* call, and after equally many calls their generators agree.
C8_RunLevelDeterminism ==
    ( args[1] = args[2] /\ Ready(1) /\ Ready(2) ) =>
    \A k \in 1..Min(Len(hist[1]), Len(hist[2])) :
        ( \A j \in 1..k : SameCall(hist[1][j], hist[2][j]) )
        => /\ hist[1][k].items = hist[2][k].items
           /\ hist[1][k].full = hist[2][k].full
           /\ (k = Len(hist[1]) /\ k = Len(hist[2])) => rng[1] = rng[2]

C8_Witness ==
    /\ Ready(1) /\ Ready(2)
    /\ Len(hist[1]) = 2 /\ Len(hist[2]) = 2
    /\ \A j \in 1..2 : SameCall(hist[1][j], hist[2][j])
    /\ SameCall(hist[1][1], hist[1][2])
    /\ hist[1][1].items # hist[1][2].items
    /\ hist[1][2].items = hist[2][2].items

\* C11 as stated: with n_facts > gold_entities the corpus holds n_facts
\* facts, whatever n_gold is.
C11_CorpusSizeIsNFacts ==
    \A b \in Insts :
        (Ready(b) /\ args[b].n_facts > args[b].gold_entities)
        => Len(facts[b]) = args[b].n_facts

\* C11, amended: with n_facts > gold_entities the corpus holds n_facts facts
\* when n_facts >= n_gold, and n_gold facts (all gold, no noise) when
\* n_gold > n_facts.
C11_CorpusSizeIsNFactsOrNGold ==
    \A b \in Insts :
        (Ready(b) /\ args[b].n_facts > args[b].gold_entities)
        => /\ args[b].n_facts >= args[b].n_gold => Len(facts[b]) = args[b].n_facts
           /\ args[b].n_gold > args[b].n_facts =>
                  /\ Len(facts[b]) = args[b].n_gold
                  /\ \A k \in 1..Len(facts[b]) : facts[b][k].tags[1] = "gold"

C11_Witness ==
    \E b \in Insts : /\ Ready(b)
                     /\ args[b].n_facts > args[b].gold_entities
                     /\ args[b].n_gold > args[b].n_facts
                     /\ Len(facts[b]) = args[b].n_gold

\* the gold list is complete once the extra loop is over
GoldDone(b) == pc[b] \in {"noise", "shuffle", "ready"}

\* C12: the gold list holds exactly one aligned fact per index i in
\* 1..gold_entities, with object gold.topic.(i mod topic_mod); without extra
\* gold (n_gold <= gold_entities) every subject gold.entity.i occurs exactly
\* once in the shuffled corpus.
C12_OneAlignedFactPerEntity ==
    \A b \in Insts :
        /\ GoldDone(b) =>
               /\ Cardinality({k \in 1..Len(gold[b]) : gold[b][k].tags = << "gold" >>})
                      = args[b].gold_entities
               /\ \A i \in 1..args[b].gold_entities :
                      /\ Count(AlignedFact(i, args[b].topic_mod), gold[b]) = 1
                      /\ gold[b][i].subject = GoldEntity(i)
                      /\ gold[b][i].object = GoldTopic(i % args[b].topic_mod)
                      /\ gold[b][i].tags = << "gold" >>
        /\ (Ready(b) /\ args[b].n_gold <= args[b].gold_entities) =>
               \A i \in 1..args[b].gold_entities :
                   Cardinality({k \in 1..Len(facts[b]) :
                                    facts[b][k].subject = GoldEntity(i)}) = 1

C12_Witness ==
    \E b \in Insts : /\ Ready(b)
                     /\ args[b].gold_entities = 2
                     /\ args[b].n_gold <= 2
                     /\ Len(facts[b]) = 3
                     /\ facts[b][1].subject # GoldEntity(1)
                     /\ \E k \in 1..3 : facts[b][k].tags = << "noise" >>

ExtraPart(b) == SubSeq(gold[b], args[b].gold_entities + 1, Len(gold[b]))

C14_BlankQueryIsNoiseOnly ==
    \A b \in Insts : (Called(b) /\ NonBlank(L(b).q) = {}) =>
        /\ ParseQuery(L(b).q) = [entity |-> None, topic |-> None]
        /\ L(b).hits = << >>
        /\ Len(L(b).full) = Len(facts[b])
        /\ \A k \in 1..Len(facts[b]) :
               Count(facts[b][k], L(b).full) = Count(facts[b][k], facts[b])
        /\ L(b).mode = "fat" =>
               /\ L(b).items = L(b).full
               /\ \A k \in 1..Len(gold[b]) : InList(gold[b][k], L(b).items)

C14_Witness ==
    \E b \in Insts : /\ Called(b)
                     /\ L(b).q = << SP, SP >>
                     /\ L(b).mode = "fat"
                     /\ Len(L(b).items) = 3
                     /\ L(b).items # facts[b]
                     /\ L(b).items[1].tags[1] = "gold"

\* q is the fixed template, blanks around it aside
IsTemplate(q) ==
    \E i \in 0..(5 * 2), j \in 0..(5 * 2) :
        NonBlank(q) # {} /\
        SubSeq(q, CHOOSE a \in NonBlank(q) : \A c \in NonBlank(q) : a <= c,
                  CHOOSE z \in NonBlank(q) : \A c \in NonBlank(q) : c <= z)
            = Template(i, j)

\* C15 as stated: a query that is not of the fixed template has an empty
\* gold-match prefix.
C15_MalformedQueryMatchesNothing ==
    \A b \in Insts : (Called(b) /\ ~ IsTemplate(L(b).q)) => L(b).hits = << >>

\* C15, amended: no query makes the call fail; the gold-match prefix is empty
\* exactly when no gold fact has the first token of q as subject and the last
\* token of q as object.  The part between the two tokens is not looked at: a
\* query with a different or missing middle part matches like the template.
C15_OnlyFirstAndLastTokenCount ==
    \A b \in Insts : Called(b) =>
        LET q == L(b).q
        IN  /\ (L(b).hits = << >>) <=>
                   ~ \E k \in 1..Len(gold[b]) :
                         /\ NonBlank(q) # {}
                         /\ gold[b][k].subject = FirstToken(q)
                         /\ gold[b][k].object = LastToken(q)
            /\ Len(L(b).full) = Len(facts[b])

C15_Witness ==
    \E b \in Insts : /\ Called(b)
                     /\ ~ IsTemplate(L(b).q)
                     /\ Len(Split(L(b).q)) = 3
                     /\ L(b).hits # << >>
                     /\ L(b).items[1] = gold[b][1]

\* C16 as stated: from_synthetic returns a backend for every choice of
\* non-negative arguments, zero included.
C16_FromSyntheticNeverRaises ==
    \A b \in Insts : pc[b] # "error"

RECURSIVE Pow2(_)
Pow2(n) == IF n = 0 THEN 1 ELSE 2 * Pow2(n - 1)

\* the calls of client.add made so far by the running safe_add
AddCalls == Len(add.outcomes)

\* the message holds one of the codes 429, 502, 503, 504
HasRetryCode(msg) ==
    \E j \in 1..Len(msg) : msg[j].k = "429" \/ msg[j].k = "502" \/ msg[j].k = "503" \/ msg[j].k = "504"

\* C18: safe_add makes at most max_retries + 1 calls of client.add and then
\* is over: it returns True at the first call that succeeds; it goes on after
\* a failure whose message holds 429, 502, 503 or 504 only while fewer than
\* max_retries retries were made; any other failure, or a failure of the last
\* attempt, returns False at once; the delay doubles with every retry and is
\* never above 6.0 seconds.
C18_SafeAddBoundedRetries ==
    add.pc # "idle" =>
        /\ AddCalls <= add.max_retries + 1
        /\ add.i <= add.max_retries
        /\ Len(add.slept) = add.i
        /\ \A j \in 1..Len(add.slept) :
               add.slept[j] = Min(BaseDelay * Pow2(j - 1), MaxDelay)
        /\ add.delay = Min(BaseDelay * Pow2(add.i), MaxDelay)
        /\ add.delay <= MaxDelay
        /\ add.pc = "try" =>
               /\ AddCalls = add.i
               /\ \A j \in 1..AddCalls : HasRetryCode(add.outcomes[j])
        /\ add.pc = "done" =>
               /\ AddCalls = add.i + 1
               /\ \A j \in 1..add.i : HasRetryCode(add.outcomes[j])
               /\ (add.result = "True") <=> (add.outcomes[AddCalls] = << W("ok") >>)
               /\ (add.result = "False") <=>
                      /\ add.outcomes[AddCalls] \in ErrorMsgs
                      /\ \/ ~ HasRetryCode(add.outcomes[AddCalls])
                         \/ AddCalls = add.max_retries + 1
               /\ add.result \in {"True", "False"}

C18_Witness ==
    /\ add.pc = "done"
    /\ add.max_retries = MaxRetries
    /\ AddCalls = MaxRetries + 1
    /\ add.result = "False"
    /\ HasRetryCode(add.outcomes[AddCalls])
    /\ add.slept[MaxRetries] = MaxDelay
    /\ add.slept[1] = BaseDelay

\* the ids of the passages that match the query of the running search, as
\* a list, oldest first
MatchIds ==
    LET S == {i \in 1..Len(store) : Matches(store[i], srch.query)}
    IN  TakeAsc(S, Cardinality(S))

\* page number n (1-based) of a list, page_size elements a page
PageOf(xs, n, page_size) ==
    IF n < 1 THEN << >>
    ELSE SubSeq(xs, (n - 1) * page_size + 1, Min(n * page_size, Len(xs)))

\* C20: search walks the cursor page by page: it makes at most `page` list
\* calls, the first with no cursor and each later one with the id of the last
\* item of the page before; it stops at the first empty page; it returns at
\* most k items, the first k of page number `page`, and nothing when the
\* store has fewer than `page` pages or page < 1.
C20_SearchWalksPages ==
    srch.pc # "idle" =>
        LET M == MatchIds
            ps == srch.page_size
            NPages == Ceil(Len(M), ps)
        IN  /\ Len(srch.calls) <= Max(srch.page, 0)
            /\ Len(srch.calls) <= NPages + 1
            /\ \A j \in 1..Len(srch.calls) :
                   srch.calls[j] = IF j = 1 THEN 0 ELSE M[Min((j - 1) * ps, Len(M))]
            /\ srch.pc = "done" =>
                   /\ Len(srch.calls) = Min(Max(srch.page, 0), NPages + 1)
                   /\ Len(srch.results) <= srch.k
                   /\ Len(srch.results) = Min(srch.k, Len(PageOf(M, srch.page, ps)))
                   /\ \A j \in 1..Len(srch.results) :
                          /\ srch.results[j].id = PageOf(M, srch.page, ps)[j]
                          /\ srch.results[j].text = store[srch.results[j].id]
                   /\ (srch.page < 1 \/ NPages < srch.page) => srch.results = << >>

C20_Witness ==
    /\ srch.pc = "done"
    /\ srch.page = 2
    /\ srch.page_size = 2
    /\ srch.k = 1
    /\ srch.query # << >>
    /\ Len(srch.calls) = 2
    /\ srch.calls[2] = 3
    /\ Len(srch.results) = 1
    /\ srch.results[1].id = 4

\* the places of the trace that hold a call of one of the given kinds
Places(kinds) == {e \in 1..Len(run.trace) : run.trace[e].ev \in kinds}

\* the n-th smallest element of a set of numbers
NthOf(S, n) == CHOOSE x \in S : Cardinality({y \in S : y <= x}) = n

\* the runner has entered its loops
Running == run.pc \notin {"idle", "build"}

TrueCount(rec) == rec.items = rec.stored

\* C19 as stated: in every pass-1 record the logged write count is the number
\* of facts written to the store for that question: 0 on a hit; on a miss at
\* most 5 in Letta fat mode and at most 2 a page in Letta paged mode; in the
\* Mem0 runner the number of safe_add calls that returned True, in fat mode
\* and in paged mode with cap_per_page >= 0.
C19_LoggedWritesAreActualWrites ==
    Running =>
        \A n \in 1..Len(run.log) :
            LET rec == run.log[n]
            IN  rec.phase = "pass1" =>
                    /\ rec.used_memory => rec.items = 0 /\ rec.stored = 0
                    /\ rec.framework = "Letta" =>
                           /\ TrueCount(rec)
                           /\ rec.mode = "fat" => rec.items <= 5
                           /\ rec.mode = "paged" => rec.items <= 2 * run.pages
                    /\ (rec.framework = "Mem0" /\ rec.mode = "fat") => TrueCount(rec)
                    /\ (rec.framework = "Mem0" /\ rec.mode = "paged"
                            /\ run.cap_per_page >= 0) => TrueCount(rec)

=============================================================================
